---- MODULE Spec2Model ----
(***************************************************************************)
(* Prompt Library backend (backend/app.py, backend/seed_demo.py): the      *)
(* prompts table, the prompt_versions ledger and the prompt_embeddings     *)
(* index, with the request handlers that mutate them.                      *)
(*                                                                         *)
(* Every handler opens its own sqlite3 connection.  Python's sqlite3       *)
(* module (default isolation level) runs a SELECT outside any transaction  *)
(* and opens a transaction implicitly before the first INSERT/UPDATE; the  *)
(* transaction holds the database write lock until commit(), and closing   *)
(* the connection without commit() rolls it back.  The committed database  *)
(* is prompts/versions/embeddings; the uncommitted view of the connection  *)
(* that holds the write lock is wprompts/wversions.                        *)
(*                                                                         *)
(* Text columns are modelled by strings, except tags, which is a sequence  *)
(* of characters so that ", ".join() is a real concatenation.  Timestamps  *)
(* (created_at, updated_at) are not modelled.  Each row carries one field  *)
(* the table does not have, `by`: a history value naming the code that     *)
(* inserted the row; no handler reads it.                                  *)
(***************************************************************************)
EXTENDS Integers, Sequences, FiniteSets, TLC

----------------------------------------------------------------------------
(* Bounds of the model *)

\* rows the prompts table may hold (AUTOINCREMENT ids are 1..MaxPrompts)
MaxPrompts == 2

\* highest version number a handler may compute for a document
MaxVersion == 3

\* requests the server accepts in one run of the model
MaxRequests == 2

\* request handlers that may be in flight at once (FastAPI runs each sync
\* handler on a worker thread)
Procs == {"h1", "h2"}

NoProc == "none"

----------------------------------------------------------------------------
(* Values *)

\* ", " as it is stored in the tags column
Sep == <<",", " ">>

RECURSIVE Join(_)
\* ", ".join(tags) for a list of tags, each a sequence of characters
Join(tags) ==
    IF Len(tags) = 0 THEN <<>>
    ELSE IF Len(tags) = 1 THEN tags[1]
    ELSE tags[1] \o Sep \o Join(Tail(tags))

\* json.dumps(payload.variables) (the column is opaque to the handlers)
JsonDumps(variables) == IF Len(variables) = 0 THEN "[]" ELSE "[...]"

\* an Optional[...] request field: {} is None, {v} is the value v
Optional(S) == {{}} \cup {{v} : v \in S}

\* payload.x if payload.x is not None else row["x"]
Resolve(given, old) == IF given # {} THEN CHOOSE v \in given : TRUE ELSE old

\* request values
Names      == {"variant-design-rules", "Code Review Checklist"}
Titles     == {"T1"}
Categories == {"general"}
TagLists   == {<< <<"u", "i">> >>}
Contents   == {"x", "y"}
VarLists   == {<<>>}

\* a PromptUpdate without its change_note
Payload(title, category, tags, content, variables) ==
    [title |-> title, category |-> category, tags |-> tags,
     content |-> content, variables |-> variables]

\* the update requests of this model: no field at all, the content alone,
\* and the metadata alone
UpdatePayloads ==
    {Payload({}, {}, {}, {}, {})}
    \cup {Payload({}, {}, {}, {c}, {}) : c \in Contents}
    \cup {Payload({t}, {c}, {g}, {}, {v}) :
            t \in Titles, c \in Categories, g \in TagLists, v \in VarLists}

\* PromptCreate.change_note and PromptUpdate.change_note (their defaults)
CreateNote == <<"Initial version">>
UpdateNote == <<"Updated prompt">>

\* f"Restored from version {version}"
RestoreNote(version) == <<"Restored from version ", version>>

\* the row seed_prompt_rules inserts; content is the text of SEED_PATH
RulesName == "variant-design-rules"
RulesContent == "PROMPT_RULES.md"
RulesTags ==
    <<"v","a","r","i","a","n","t","s",","," ","u","i",","," ","d","e","s","i",
      "g","n",","," ","s","e","c","u","r","i","t","y","-","t","o","o","l","s">>
RulesNote == <<"Initial import from PROMPT_RULES.md">>
RulesRow ==
    [name |-> RulesName, title |-> "Variant Design Rules",
     category |-> "design-rules", tags |-> RulesTags, content |-> RulesContent,
     variables |-> JsonDumps(<<>>), current_version |-> 1, is_deleted |-> FALSE,
     by |-> "seed_prompt_rules"]

\* DEMO_PROMPTS, cut to its first entry (the other seven differ in text only)
DEMO_PROMPTS ==
    << [name |-> "Code Review Checklist", title |-> "Code Review Checklist",
        category |-> "development",
        tags |-> <<"[","\"","c","o","d","e","-","r","e","v","i","e","w","\"",
                   ","," ","\"","q","u","a","l","i","t","y","\"",","," ","\"",
                   "c","h","e","c","k","l","i","s","t","\"","]">>,
        content |-> "# Code Review Checklist"] >>

\* the row seed() inserts for one entry of DEMO_PROMPTS
DemoRow(p) ==
    [name |-> p.name, title |-> p.title, category |-> p.category,
     tags |-> p.tags, content |-> p.content, variables |-> "[]",
     current_version |-> 1, is_deleted |-> FALSE, by |-> "seed"]

----------------------------------------------------------------------------
(* State *)

VARIABLES
    schema,      \* who created the prompts table: "none", "init_db", "seed"
    started,     \* the application has run startup() and serves requests
    prompts,     \* committed prompts table: the row of id i is prompts[i]
    versions,    \* committed prompt_versions table (the ledger)
    embeddings,  \* committed prompt_embeddings table
    wprompts,    \* prompts as seen inside the open write transaction
    wversions,   \* prompt_versions as seen inside the open write transaction
    lock,        \* the handler holding the database write lock, or NoProc
    req,         \* per handler: its position and local variables
    response,    \* outcome of the request that finished last
    served       \* requests accepted so far

vars == <<schema, started, prompts, versions, embeddings, wprompts, wversions,
          lock, req, response, served>>

\* local variables of a handler that is not running
Idle ==
    [pc |-> "idle", id |-> 0, target |-> 0, name |-> "", title |-> "",
     category |-> "", tags |-> <<>>, content |-> "", variables |-> "",
     next_version |-> 0, change_note |-> <<>>,
     rows |-> <<>>, embedded |-> 0, failed |-> 0,
     payload |-> Payload({}, {}, {}, {}, {})]

Init ==
    /\ schema = "none"
    /\ started = FALSE
    /\ prompts = <<>>
    /\ versions = {}
    /\ embeddings = {}
    /\ wprompts = <<>>
    /\ wversions = {}
    /\ lock = NoProc
    /\ req = [p \in Procs |-> Idle]
    /\ response = "none"
    /\ served = 0

----------------------------------------------------------------------------
(* Tables, statements and transactions *)

\* prompts.name is UNIQUE in the table init_db creates, not in the one seed()
\* creates (CREATE TABLE IF NOT EXISTS keeps whichever came first)
NameIsUnique(s) == s = "init_db"

\* lastrowid of an INSERT INTO prompts (AUTOINCREMENT, rows are never removed)
LastRowId(tbl) == Len(tbl) + 1

\* SELECT ... FROM prompts WHERE id = ? AND is_deleted = 0 finds a row
IsActive(tbl, id) == id \in 1..Len(tbl) /\ ~tbl[id].is_deleted

\* SELECT id FROM prompts WHERE name = ? finds a row (deleted or not)
NameExists(tbl, name) == \E i \in 1..Len(tbl) : tbl[i].name = name

\* SELECT ... FROM prompt_versions WHERE prompt_id = ? AND version = ?
VersionRows(tbl, id, version) ==
    {e \in tbl : e.prompt_id = id /\ e.version = version}

\* a ledger table without the UNIQUE(prompt_id, version) constraint
VersionTaken_never(tbl, id, version) == FALSE

\* UNIQUE(prompt_id, version): an INSERT of this key raises IntegrityError
VersionTaken(tbl, id, version) == VersionRows(tbl, id, version) # {}

\* a row of prompt_versions
VersionEntry(id, version, content, note) ==
    [prompt_id |-> id, version |-> version, content |-> content,
     change_note |-> note]

\* a version counter that steps by two
NextVersion_skip(row) == row.current_version + 2

\* int(row["current_version"]) + 1
NextVersion(row) == row.current_version + 1

\* a connection in autocommit mode: every statement is final at once
RolledBack_keep(committed, uncommitted) == uncommitted

\* what a table holds after its connection is closed without commit(): the
\* open transaction is rolled back
RolledBack(committed, uncommitted) == committed

\* the worker a new request goes to: the first idle one
FirstIdle == CHOOSE p \in Procs : req[p].pc = "idle" /\ (p = "h1" \/ req["h1"].pc # "idle")

\* handler p takes a new request
Accept(p) ==
    /\ started
    /\ req[p].pc = "idle"
    /\ p = FirstIdle
    /\ served < MaxRequests
    /\ served' = served + 1

\* leave the handler: locals are dropped, the outcome is kept
Finish(p, outcome) ==
    /\ req' = [req EXCEPT ![p] = Idle]
    /\ response' = outcome

\* move handler p to its next statement with new locals
Goto(p, locals) ==
    /\ req' = [req EXCEPT ![p] = locals]
    /\ UNCHANGED response

\* the first INSERT/UPDATE of a connection opens a transaction and takes the
\* write lock; its effect stays private to the connection
Stage(p, tblPrompts, tblVersions) ==
    /\ lock \in {NoProc, p}
    /\ lock' = p
    /\ wprompts' = tblPrompts
    /\ wversions' = tblVersions
    /\ UNCHANGED <<schema, started, prompts, versions, embeddings>>

\* conn.commit()
Commit(p) ==
    /\ lock = p
    /\ prompts' = wprompts
    /\ versions' = wversions
    /\ lock' = NoProc
    /\ UNCHANGED <<schema, started, embeddings, wprompts, wversions>>

\* an exception leaves `with closing(conn)`: the connection is closed
\* without commit, the transaction is rolled back, the lock released
Abort(p, outcome) ==
    /\ prompts' = RolledBack(prompts, wprompts)
    /\ versions' = RolledBack(versions, wversions)
    /\ wprompts' = prompts'
    /\ wversions' = versions'
    /\ lock' = NoProc
    /\ Finish(p, outcome)
    /\ UNCHANGED <<schema, started, embeddings>>

----------------------------------------------------------------------------
(* The embedding service and the embedding index *)

\* what the body's "embedding" key may hold: nothing (key missing or null),
\* a list of numbers, or anything else (a list holding a non-number, a
\* string, a number, an object)
Null == [t |-> "null"]
Floats(v) == [t |-> "floats", v |-> v]
Malformed == [t |-> "other"]

\* EMBED_DIM (768 in the source) scaled down; the source never reads it
EMBED_DIM == 2

\* The vector the service has for a text.  The service is deterministic in
\* its input; the sample covers two orthogonal unit vectors, an all-zero
\* vector and a vector of another length than EMBED_DIM.
ServiceVector(text) ==
    LET content == text[4]
    IN  IF content = "x" THEN <<1, 0>>
        ELSE IF content = "y" THEN <<0, 1>>
        ELSE IF content = RulesContent THEN <<0, 0>>
        ELSE <<1>>

\* outcomes of httpx.post(OLLAMA_URL, ...) for a text: an exception (timeout,
\* network error, non-2xx status via raise_for_status, a body that is not a
\* JSON object), or a JSON object
Responses(text) ==
    {[raised |-> TRUE, embedding |-> Null]}
    \cup {[raised |-> FALSE, embedding |-> e] :
            e \in {Null, Malformed, Floats(ServiceVector(text))}}

\* embed_text: the "embedding" key of the body, None on any exception
embed_text(reply) ==
    IF reply.raised THEN Null ELSE reply.embedding

\* struct.pack(f"{len(emb)}f", *emb) accepts a list of numbers only
CanPack(emb) == emb.t = "floats"

RECURSIVE pack_embedding(_)
\* four bytes per float: the value is kept in the first, the rest are zero
pack_embedding(v) ==
    IF Len(v) = 0 THEN <<>>
    ELSE <<Head(v), 0, 0, 0>> \o pack_embedding(Tail(v))

\* struct.unpack(f"{n}f", data) with n = len(data) // 4
unpack_embedding(data) ==
    [i \in 1..(Len(data) \div 4) |-> data[4 * (i - 1) + 1]]

\* text = f"{name} ({category}): {tags}\n\n{content}"
EmbedText(name, category, tags, content) == <<name, category, tags, content>>

\* hashlib.md5(text.encode()).hexdigest()
Md5(text) == <<"md5", text>>

\* INSERT INTO prompt_embeddings ... ON CONFLICT(prompt_id) DO UPDATE
Upsert(tbl, id, blob, hash) ==
    {e \in tbl : e.prompt_id # id}
    \cup {[prompt_id |-> id, embedding |-> blob, content_hash |-> hash]}

\* _embed_prompt as called by handler p at position pc, going on to `next`.
\* No vector: return.  A value struct.pack rejects: the exception leaves the
\* handler.  Otherwise the record is written and committed at once.
EmbedPrompt(p, next) ==
    \E reply \in Responses(EmbedText(req[p].name, req[p].category,
                                     req[p].tags, req[p].content)) :
        LET emb == embed_text(reply)
            l == req[p]
            hash == Md5(EmbedText(l.name, l.category, l.tags, l.content))
        IN  IF emb = Null
            THEN /\ Goto(p, [l EXCEPT !.pc = next])
                 /\ UNCHANGED embeddings
            ELSE IF ~CanPack(emb)
            THEN /\ Finish(p, "embed_error")
                 /\ UNCHANGED embeddings
            ELSE /\ lock = NoProc
                 /\ embeddings' = Upsert(embeddings, l.id, pack_embedding(emb.v), hash)
                 /\ Goto(p, [l EXCEPT !.pc = next])

----------------------------------------------------------------------------
(* Startup and seeding *)

\* startup(): init_db() creates the missing tables, seed_prompt_rules()
\* imports SEED_PATH when the file exists and the row does not
Startup ==
    /\ ~started
    /\ started' = TRUE
    /\ schema' = IF schema = "none" THEN "init_db" ELSE schema
    /\ \E exists \in BOOLEAN :
         IF exists /\ ~NameExists(prompts, RulesName)
         THEN /\ LastRowId(prompts) <= MaxPrompts
              /\ prompts' = Append(prompts, RulesRow)
              /\ versions' = versions \cup
                    {VersionEntry(LastRowId(prompts), 1, RulesContent, RulesNote)}
         ELSE UNCHANGED <<prompts, versions>>
    /\ wprompts' = prompts'
    /\ wversions' = versions'
    /\ UNCHANGED <<embeddings, lock, req, response, served>>

\* seed_demo.seed(): creates prompts and prompt_versions when missing and,
\* when prompts is empty, inserts DEMO_PROMPTS into prompts only
seed ==
    /\ lock = NoProc
    /\ schema = "none" \/ Len(prompts) = 0
    /\ schema' = IF schema = "none" THEN "seed" ELSE schema
    /\ Len(DEMO_PROMPTS) <= MaxPrompts
    /\ prompts' = IF Len(prompts) > 0 THEN prompts
                  ELSE [i \in 1..Len(DEMO_PROMPTS) |-> DemoRow(DEMO_PROMPTS[i])]
    /\ wprompts' = prompts'
    /\ UNCHANGED <<started, versions, embeddings, wversions, lock, req, response, served>>

\* the server process dies with a write transaction open: the transaction is
\* rolled back, no request in flight is answered.  (A crash that finds no
\* transaction open changes no table; to the tables it is a handler that
\* takes no further step.)
Crash ==
    /\ started
    /\ lock # NoProc
    /\ started' = FALSE
    /\ prompts' = RolledBack(prompts, wprompts)
    /\ versions' = RolledBack(versions, wversions)
    /\ wprompts' = prompts'
    /\ wversions' = versions'
    /\ lock' = NoProc
    /\ req' = [p \in Procs |-> Idle]
    /\ UNCHANGED <<schema, embeddings, response, served>>

\* a statement that needs the write lock gives up after the busy timeout
\* (sqlite3.OperationalError: database is locked)
DatabaseLocked(p) ==
    /\ started
    /\ req[p].pc \in {"idle", "update_write", "restore_write", "delete_write",
                      "create_embed", "update_embed"}
    /\ lock \notin {NoProc, p}
    /\ req[p].pc = "idle" => served < MaxRequests /\ p = FirstIdle
    /\ served' = IF req[p].pc = "idle" THEN served + 1 ELSE served
    /\ Finish(p, "locked")
    /\ UNCHANGED <<schema, started, prompts, versions, embeddings, wprompts,
                   wversions, lock>>

----------------------------------------------------------------------------
(* create_prompt *)

\* INSERT INTO prompts: IntegrityError on a taken name becomes 409
CreateInsertPrompt(p) ==
    /\ Accept(p)
    /\ \E name \in Names, title \in Titles,
          category \in Categories, tags \in TagLists, content \in Contents,
          variables \in VarLists :
         IF NameIsUnique(schema) /\ NameExists(prompts, name)
         THEN /\ lock = NoProc
              /\ Abort(p, "conflict")
         ELSE /\ LastRowId(prompts) <= MaxPrompts
              /\ Stage(p,
                       Append(prompts,
                              [name |-> name, title |-> title,
                               category |-> category, tags |-> Join(tags),
                               content |-> content,
                               variables |-> JsonDumps(variables),
                               current_version |-> 1, is_deleted |-> FALSE,
                               by |-> "create_prompt"]),
                       versions)
              /\ lock = NoProc
              /\ Goto(p, [Idle EXCEPT !.pc = "create_insert_version",
                                      !.id = LastRowId(prompts),
                                      !.name = name, !.category = category,
                                      !.tags = Join(tags), !.content = content,
                                      !.change_note = CreateNote])

\* INSERT INTO prompt_versions (prompt_id, 1, content, change_note)
CreateInsertVersion(p) ==
    /\ req[p].pc = "create_insert_version"
    /\ UNCHANGED served
    /\ LET l == req[p]
       IN  IF VersionTaken(wversions, l.id, 1)
           THEN Abort(p, "integrity")
           ELSE /\ Stage(p, wprompts,
                         wversions \cup
                            {VersionEntry(l.id, 1, l.content, l.change_note)})
                /\ Goto(p, [l EXCEPT !.pc = "create_commit"])

CreateCommit(p) ==
    /\ req[p].pc = "create_commit"
    /\ UNCHANGED served
    /\ Commit(p)
    /\ Goto(p, [req[p] EXCEPT !.pc = "create_embed"])

\* _embed_prompt(prompt_id, payload.content, payload.name, tags, category)
CreateEmbed(p) ==
    /\ req[p].pc = "create_embed"
    /\ UNCHANGED served
    /\ EmbedPrompt(p, "create_get")
    /\ UNCHANGED <<schema, started, prompts, versions, wprompts, wversions, lock>>

\* get_prompt(prompt_id): 404 unless the row exists and is not deleted
GetPrompt(p) ==
    /\ req[p].pc \in {"create_get", "update_get", "restore_get"}
    /\ UNCHANGED served
    /\ Finish(p, IF IsActive(prompts, req[p].id) THEN "ok" ELSE "not_found")
    /\ UNCHANGED <<schema, started, prompts, versions, embeddings, wprompts,
                   wversions, lock>>

----------------------------------------------------------------------------
(* update_prompt *)

\* SELECT the active row (outside any transaction), resolve the payload
\* against it and compute next_version
UpdateRead(p) ==
    /\ Accept(p)
    /\ \E id \in 1..MaxPrompts, payload \in UpdatePayloads :
         IF ~IsActive(prompts, id)
         THEN Finish(p, "not_found")
         ELSE LET row == prompts[id]
              IN  /\ NextVersion(row) <= MaxVersion
                  /\ Goto(p, [Idle EXCEPT
                        !.pc = "update_write", !.id = id, !.name = row.name,
                        !.payload = payload,
                        !.title = Resolve(payload.title, row.title),
                        !.category = Resolve(payload.category, row.category),
                        !.tags = Resolve({Join(t) : t \in payload.tags}, row.tags),
                        !.content = Resolve(payload.content, row.content),
                        !.variables =
                            Resolve({JsonDumps(v) : v \in payload.variables},
                                    row.variables),
                        !.next_version = NextVersion(row),
                        !.change_note = UpdateNote])
    /\ UNCHANGED <<schema, started, prompts, versions, embeddings, wprompts,
                   wversions, lock>>

\* an UPDATE whose SET list lacks the content column
UpdatedRow_nocontent(row, l) ==
    [row EXCEPT !.title = l.title, !.category = l.category, !.tags = l.tags,
                !.variables = l.variables, !.current_version = l.next_version]

\* an UPDATE whose SET list lacks the title column
UpdatedRow_notitle(row, l) ==
    [row EXCEPT !.category = l.category, !.tags = l.tags,
                !.content = l.content, !.variables = l.variables,
                !.current_version = l.next_version]

\* an update that keeps the version when the content did not change
UpdatedRow_nobump(row, l) ==
    [row EXCEPT !.title = l.title, !.category = l.category, !.tags = l.tags,
                !.content = l.content, !.variables = l.variables,
                !.current_version = IF l.content = row.content
                                    THEN row.current_version
                                    ELSE l.next_version]

\* the row UPDATE prompts SET title, category, tags, content, variables,
\* current_version ... WHERE id = ? leaves (the statement does not look at
\* is_deleted)
UpdatedRow(row, l) ==
    [row EXCEPT !.title = l.title, !.category = l.category, !.tags = l.tags,
                !.content = l.content, !.variables = l.variables,
                !.current_version = l.next_version]

UpdateWrite(p) ==
    /\ req[p].pc = "update_write"
    /\ UNCHANGED served
    /\ lock = NoProc
    /\ LET l == req[p]
       IN  /\ Stage(p, [prompts EXCEPT ![l.id] = UpdatedRow(@, l)], versions)
           /\ Goto(p, [l EXCEPT !.pc = "update_insert"])

\* an INSERT OR REPLACE: a taken version is overwritten
InsertVersion_replace(p, next) ==
    LET l == req[p]
    IN  /\ Stage(p, wprompts,
                 {e \in wversions :
                     e.prompt_id # l.id \/ e.version # l.next_version}
                 \cup {VersionEntry(l.id, l.next_version, l.content,
                                    l.change_note)})
        /\ Goto(p, [l EXCEPT !.pc = next])

\* INSERT INTO prompt_versions (prompt_id, next_version, content, note):
\* UNIQUE(prompt_id, version) raises IntegrityError on a taken version
InsertVersion(p, next) ==
    LET l == req[p]
    IN  IF VersionTaken(wversions, l.id, l.next_version)
        THEN Abort(p, "integrity")
        ELSE /\ Stage(p, wprompts,
                      wversions \cup
                         {VersionEntry(l.id, l.next_version, l.content,
                                       l.change_note)})
             /\ Goto(p, [l EXCEPT !.pc = next])

UpdateInsert(p) ==
    /\ req[p].pc = "update_insert"
    /\ UNCHANGED served
    /\ InsertVersion(p, "update_commit")

UpdateCommit(p) ==
    /\ req[p].pc = "update_commit"
    /\ UNCHANGED served
    /\ Commit(p)
    /\ Goto(p, [req[p] EXCEPT !.pc = "update_embed"])

\* _embed_prompt(prompt_id, content, row["name"], tags, category)
UpdateEmbed(p) ==
    /\ req[p].pc = "update_embed"
    /\ UNCHANGED served
    /\ EmbedPrompt(p, "update_get")
    /\ UNCHANGED <<schema, started, prompts, versions, wprompts, wversions, lock>>

----------------------------------------------------------------------------
(* restore_version *)

\* SELECT the active row and compute next_version from it
RestoreReadPrompt(p) ==
    /\ Accept(p)
    /\ \E id \in 1..MaxPrompts, version \in 1..MaxVersion :
         IF ~IsActive(prompts, id)
         THEN Finish(p, "not_found")
         ELSE /\ NextVersion(prompts[id]) <= MaxVersion
              /\ Goto(p, [Idle EXCEPT
                    !.pc = "restore_read_version", !.id = id,
                    !.target = version,
                    !.next_version = NextVersion(prompts[id])])
    /\ UNCHANGED <<schema, started, prompts, versions, embeddings, wprompts,
                   wversions, lock>>

\* SELECT content FROM prompt_versions for the version to restore
RestoreReadVersion(p) ==
    /\ req[p].pc = "restore_read_version"
    /\ UNCHANGED served
    /\ LET l == req[p]
           found == VersionRows(versions, l.id, l.target)
       IN  IF found = {}
           THEN Finish(p, "not_found")
           ELSE Goto(p, [l EXCEPT
                    !.pc = "restore_write",
                    !.content = (CHOOSE e \in found : TRUE).content,
                    !.change_note = RestoreNote(l.target)])
    /\ UNCHANGED <<schema, started, prompts, versions, embeddings, wprompts,
                   wversions, lock>>

\* a restore that rewinds current_version to the restored version
RestoredRow_rewind(row, l) ==
    [row EXCEPT !.content = l.content, !.current_version = l.target]

\* the row UPDATE prompts SET content, current_version ... WHERE id = ? leaves
RestoredRow(row, l) ==
    [row EXCEPT !.content = l.content, !.current_version = l.next_version]

RestoreWrite(p) ==
    /\ req[p].pc = "restore_write"
    /\ UNCHANGED served
    /\ lock = NoProc
    /\ LET l == req[p]
       IN  /\ Stage(p, [prompts EXCEPT ![l.id] = RestoredRow(@, l)], versions)
           /\ Goto(p, [l EXCEPT !.pc = "restore_insert"])

RestoreInsert(p) ==
    /\ req[p].pc = "restore_insert"
    /\ UNCHANGED served
    /\ InsertVersion(p, "restore_commit")

\* commit, then return get_prompt(prompt_id): no embedding refresh
RestoreCommit(p) ==
    /\ req[p].pc = "restore_commit"
    /\ UNCHANGED served
    /\ Commit(p)
    /\ Goto(p, [req[p] EXCEPT !.pc = "restore_get"])

----------------------------------------------------------------------------
(* delete_prompt *)

DeleteRead(p) ==
    /\ Accept(p)
    /\ \E id \in 1..MaxPrompts :
         IF ~IsActive(prompts, id)
         THEN Finish(p, "not_found")
         ELSE Goto(p, [Idle EXCEPT !.pc = "delete_write", !.id = id])
    /\ UNCHANGED <<schema, started, prompts, versions, embeddings, wprompts,
                   wversions, lock>>

\* a delete that also blanks the content
DeletedRow_purge(row) == [row EXCEPT !.is_deleted = TRUE, !.content = ""]

\* the row UPDATE prompts SET is_deleted = 1, updated_at = ? leaves
DeletedRow(row) == [row EXCEPT !.is_deleted = TRUE]

\* UPDATE prompts SET is_deleted = 1 ... WHERE id = ?
DeleteWrite(p) ==
    /\ req[p].pc = "delete_write"
    /\ UNCHANGED served
    /\ lock = NoProc
    /\ Stage(p, [prompts EXCEPT ![req[p].id] = DeletedRow(@)], versions)
    /\ Goto(p, [req[p] EXCEPT !.pc = "delete_commit"])

\* commit and return {"ok": True}
DeleteCommit(p) ==
    /\ req[p].pc = "delete_commit"
    /\ UNCHANGED served
    /\ Commit(p)
    /\ Finish(p, "ok")

----------------------------------------------------------------------------
(* rebuild_embeddings *)

RECURSIVE SelectActive(_, _)
\* SELECT * FROM prompts WHERE is_deleted = 0, from row i on, in rowid order:
\* the columns rebuild_embeddings passes on to _embed_prompt
SelectActive(tbl, i) ==
    IF i > Len(tbl) THEN <<>>
    ELSE (IF tbl[i].is_deleted THEN <<>>
          ELSE <<[id |-> i, name |-> tbl[i].name, category |-> tbl[i].category,
                  tags |-> tbl[i].tags, content |-> tbl[i].content]>>)
         \o SelectActive(tbl, i + 1)

\* rows = SELECT ...; embedded = 0; failed = 0
RebuildRead(p) ==
    /\ Accept(p)
    /\ Goto(p, [Idle EXCEPT !.pc = "rebuild_embed",
                            !.rows = SelectActive(prompts, 1)])
    /\ UNCHANGED <<schema, started, prompts, versions, embeddings, wprompts,
                   wversions, lock>>

\* one turn of `for row in rows`: _embed_prompt inside try/except.  It
\* returns without a word when embed_text gave None, raises when struct.pack
\* rejects the value or when the upsert meets a locked database, and stores
\* the record otherwise; every return counts as embedded, every exception as
\* failed.
RebuildEmbed(p) ==
    /\ req[p].pc = "rebuild_embed"
    /\ UNCHANGED served
    /\ LET l == req[p]
           done == l.embedded + l.failed
       IN  /\ done < Len(l.rows)
           /\ LET row == l.rows[done + 1]
                   text == EmbedText(row.name, row.category, row.tags,
                                     row.content)
                   hash == Md5(text)
               IN  \E reply \in Responses(text) :
                     LET emb == embed_text(reply)
                     IN  IF emb = Null
                         THEN /\ Goto(p, [l EXCEPT !.embedded = @ + 1])
                              /\ UNCHANGED embeddings
                         ELSE IF ~CanPack(emb) \/ lock # NoProc
                         THEN /\ Goto(p, [l EXCEPT !.failed = @ + 1])
                              /\ UNCHANGED embeddings
                         ELSE /\ embeddings' =
                                   Upsert(embeddings, row.id,
                                          pack_embedding(emb.v), hash)
                              /\ Goto(p, [l EXCEPT !.embedded = @ + 1])
    /\ UNCHANGED <<schema, started, prompts, versions, wprompts, wversions, lock>>

\* return {"embedded": embedded, "failed": failed, "total": len(rows)}
RebuildReturn(p) ==
    /\ req[p].pc = "rebuild_embed"
    /\ UNCHANGED served
    /\ req[p].embedded + req[p].failed = Len(req[p].rows)
    /\ Finish(p, "ok")
    /\ UNCHANGED <<schema, started, prompts, versions, embeddings, wprompts,
                   wversions, lock>>

----------------------------------------------------------------------------
(* Read handlers: each is a function of the committed tables *)

\* a lookup that forgets the is_deleted filter
ActivePrompts_all(tbl) == 1..Len(tbl)

\* SELECT * FROM prompts WHERE is_deleted = 0, as ids
ActivePrompts(tbl) == {i \in 1..Len(tbl) : ~tbl[i].is_deleted}

\* list_prompts() without filters: the ids of the rows returned
list_prompts == ActivePrompts(prompts)

\* tags LIKE '%tag%': the pattern occurs somewhere in the column (the
\* characters of this model are lower-case and hold no LIKE wildcard)
Like(column, tag) ==
    \E i \in 0..(Len(column) - Len(tag)) :
        SubSeq(column, i + 1, i + Len(tag)) = tag

\* list_prompts(tag=tag): the ids of the rows returned; an empty tag is no
\* filter (`if tag:`)
list_prompts_by_tag(tag) ==
    IF Len(tag) = 0 THEN ActivePrompts(prompts)
    ELSE {i \in ActivePrompts(prompts) : Like(prompts[i].tags, tag)}

RECURSIVE Split(_, _)
\* tags.split(","): the pieces of `column` after position i, `piece` being the
\* one begun
Split(column, piece) ==
    IF Len(column) = 0 THEN <<piece>>
    ELSE IF Head(column) = "," THEN <<piece>> \o Split(Tail(column), <<>>)
    ELSE Split(Tail(column), Append(piece, Head(column)))

RECURSIVE Strip(_)
\* t.strip(): no blank at either end
Strip(t) ==
    IF Len(t) = 0 THEN t
    ELSE IF Head(t) = " " THEN Strip(Tail(t))
    ELSE IF t[Len(t)] = " " THEN Strip(SubSeq(t, 1, Len(t) - 1))
    ELSE t

\* parse_tags: [t.strip() for t in tags.split(",") if t.strip()]
parse_tags(column) ==
    LET pieces == Split(column, <<>>)
    IN  SelectSeq([i \in 1..Len(pieces) |-> Strip(pieces[i])],
                  LAMBDA t : Len(t) > 0)

\* tag filters of this model: a whole tag, a part of one, a tag no row has
TagFilters ==
    {<<"u", "i">>, <<"u">>, <<"d", "e", "s", "i", "g", "n">>, <<"z">>}

\* get_prompt(prompt_id): the rows found; {} is the 404
get_prompt(id) == {prompts[i] : i \in {j \in ActivePrompts(prompts) : j = id}}

\* get_prompt_by_name(name): the ids fetchone() may return; {} is the 404
get_prompt_by_name(name) ==
    {i \in ActivePrompts(prompts) : prompts[i].name = name}

\* get_specific_version(prompt_id, version): the rows found; {} is the 404
get_specific_version(id, version) == VersionRows(versions, id, version)

RECURSIVE SumTo(_, _)
\* sum of f[1..n]
SumTo(f, n) == IF n = 0 THEN 0 ELSE f[n] + SumTo(f, n - 1)

\* sum(x * y for x, y in zip(a, b)): zip stops at the shorter vector
Dot(a, b) ==
    LET n == IF Len(a) < Len(b) THEN Len(a) ELSE Len(b)
    IN  SumTo([i \in 1..n |-> a[i] * b[i]], n)

\* a cosine without the guard on the norms
cosine_similarity_noguard(a, b) ==
    [num |-> Dot(a, b), den |-> Dot(a, a) * Dot(b, b)]

\* A score is kept exact as num / sqrt(den), den > 0.
\* cosine_similarity: 0.0 when either norm is zero
cosine_similarity(a, b) ==
    LET na2 == Dot(a, a)
        nb2 == Dot(b, b)
    IN  IF na2 = 0 \/ nb2 = 0 THEN [num |-> 0, den |-> 1]
        ELSE [num |-> Dot(a, b), den |-> na2 * nb2]

Sign(x) == IF x < 0 THEN -1 ELSE IF x > 0 THEN 1 ELSE 0

\* score >= min_score, min_score the fraction m.n / m.d in 0..1
AtLeast(score, m) ==
    /\ score.num >= 0
    /\ score.num * score.num * m.d * m.d >= m.n * m.n * score.den

\* s > t
Higher(s, t) ==
    Sign(s.num) * s.num * s.num * t.den > Sign(t.num) * t.num * t.num * s.den

RECURSIVE IsqrtIn(_, _, _)
\* the largest r in lo..hi with r * r <= n (lo * lo <= n)
IsqrtIn(n, lo, hi) ==
    IF lo = hi THEN lo
    ELSE LET mid == (lo + hi + 1) \div 2
         IN  IF mid * mid <= n THEN IsqrtIn(n, mid, hi)
             ELSE IsqrtIn(n, lo, mid - 1)

\* round(score, 4), as a count of ten-thousandths: the nearest integer to
\* 10^4 * num / sqrt(den), that is floor((sqrt(4 * 10^8 * num^2 / den) + 1) / 2)
\* (no score of this model lies on a half)
Round4(score) ==
    IF score.num = 0 THEN 0
    ELSE Sign(score.num)
            * ((IsqrtIn((400000000 * score.num * score.num) \div score.den,
                        0, 20000) + 1) \div 2)

\* the score of one row of prompt_embeddings against the query vector
Score(query_emb, e) ==
    cosine_similarity(query_emb, unpack_embedding(e.embedding))

\* the rows of prompt_embeddings that pass `pid in prompt_map` and
\* `score >= payload.min_score` (the score as computed, not yet rounded)
Hits(query_emb, min_score) ==
    {e \in embeddings :
        /\ e.prompt_id \in ActivePrompts(prompts)
        /\ AtLeast(Score(query_emb, e), min_score)}

RECURSIVE Ranked(_, _)
\* results.sort(key=lambda x: x["score"], reverse=True): highest rounded
\* score first; the sort is stable, so rows of equal rounded score stay in
\* the order they were read (prompt_id is the rowid of prompt_embeddings)
Ranked(query_emb, hits) ==
    IF hits = {} THEN <<>>
    ELSE LET key(e) == Round4(Score(query_emb, e))
             first == CHOOSE e \in hits : \A o \in hits :
                        \/ key(e) > key(o)
                        \/ key(e) = key(o) /\ e.prompt_id <= o.prompt_id
         IN  <<[id |-> first.prompt_id, score |-> key(first)]>>
             \o Ranked(query_emb, hits \ {first})

\* semantic_search: results[:limit] as (prompt id, rounded score), for the
\* query vector embed_text(payload.query) returned
semantic_search(query_emb, limit, min_score) ==
    LET all == Ranked(query_emb, Hits(query_emb, min_score))
    IN  SubSeq(all, 1, IF limit < Len(all) THEN limit ELSE Len(all))

\* search requests of this model: query vectors, limits (ge=1), and
\* min_score as fractions n/d in 0..1 (408/577 = 0.70710572...)
QueryVectors == {<<1, 0>>, <<1, 1>>, <<0, 0>>}
Limits == {1, 2}
MinScores ==
    {[n |-> 0, d |-> 1], [n |-> 1, d |-> 2], [n |-> 408, d |-> 577],
     [n |-> 1, d |-> 1]}

----------------------------------------------------------------------------

Next ==
    \/ Startup
    \/ seed
    \/ Crash
    \/ \E p \in Procs :
         \/ DatabaseLocked(p)
         \/ CreateInsertPrompt(p)
         \/ CreateInsertVersion(p)
         \/ CreateCommit(p)
         \/ CreateEmbed(p)
         \/ UpdateRead(p)
         \/ UpdateWrite(p)
         \/ UpdateInsert(p)
         \/ UpdateCommit(p)
         \/ UpdateEmbed(p)
         \/ RestoreReadPrompt(p)
         \/ RestoreReadVersion(p)
         \/ RestoreWrite(p)
         \/ RestoreInsert(p)
         \/ RestoreCommit(p)
         \/ DeleteRead(p)
         \/ DeleteWrite(p)
         \/ DeleteCommit(p)
         \/ GetPrompt(p)
         \/ RebuildRead(p)
         \/ RebuildEmbed(p)
         \/ RebuildReturn(p)

Spec == Init /\ [][Next]_vars

\* The same handlers with one worker: requests are served one at a time, so
\* no statement ever meets a locked database.  The read handlers are
\* functions of the committed tables; this specification hands them the
\* tables of every sequential run.
OneWorker == "h1"

NextSequential ==
    \/ Startup
    \/ seed
    \/ Crash
    \/ CreateInsertPrompt(OneWorker)
    \/ CreateInsertVersion(OneWorker)
    \/ CreateCommit(OneWorker)
    \/ CreateEmbed(OneWorker)
    \/ UpdateRead(OneWorker)
    \/ UpdateWrite(OneWorker)
    \/ UpdateInsert(OneWorker)
    \/ UpdateCommit(OneWorker)
    \/ UpdateEmbed(OneWorker)
    \/ RestoreReadPrompt(OneWorker)
    \/ RestoreReadVersion(OneWorker)
    \/ RestoreWrite(OneWorker)
    \/ RestoreInsert(OneWorker)
    \/ RestoreCommit(OneWorker)
    \/ DeleteRead(OneWorker)
    \/ DeleteWrite(OneWorker)
    \/ DeleteCommit(OneWorker)
    \/ GetPrompt(OneWorker)
    \/ RebuildRead(OneWorker)
    \/ RebuildEmbed(OneWorker)
    \/ RebuildReturn(OneWorker)

Sequential == Init /\ [][NextSequential]_vars

----------------------------------------------------------------------------
(* Properties *)

\* the ledger entries of document id
Ledger(id) == {e \in versions : e.prompt_id = id}

\* the version numbers in the ledger of document id
LedgerVersions(id) == {e.version : e \in Ledger(id)}

\* C1: for every document inserted together with its version-1 entry
\* (create_prompt, and seed_prompt_rules, which inserts the same pair), after
\* any create/update/restore calls the version numbers in its ledger are
\* exactly 1..current_version, one entry each: no gap, no duplicate.
C1_GapFreeLedger ==
    \A id \in 1..Len(prompts) :
        prompts[id].by # "seed" =>
            /\ LedgerVersions(id) = 1..prompts[id].current_version
            /\ Cardinality(Ledger(id)) = prompts[id].current_version

\* a document that went through an update and a restore
C1_Witness ==
    \E id \in 1..Len(prompts) :
        /\ prompts[id].by # "seed"
        /\ prompts[id].current_version >= 3
        /\ \E e \in Ledger(id) : e.change_note = UpdateNote
        /\ \E e \in Ledger(id) : e.change_note = RestoreNote(1)

\* C2 (as claimed): every row of prompts, however it was inserted, has a
\* ledger entry at its current_version and none above it.
C2_CurrentVersionInLedger ==
    \A id \in 1..Len(prompts) :
        /\ \E e \in Ledger(id) : e.version = prompts[id].current_version
        /\ \A e \in Ledger(id) : e.version <= prompts[id].current_version

\* positions of update_prompt and restore_version from the first write on
WritePcs ==
    {"update_write", "update_insert", "update_commit",
     "restore_write", "restore_insert", "restore_commit"}

\* handler p computed next_version from a current_version that has been
\* committed over since
Stale(p) ==
    /\ req[p].pc \in WritePcs
    /\ req[p].next_version # prompts[req[p].id].current_version + 1

\* one step moves a committed current_version by 0 or by 1, and a move by 1
\* comes with exactly one new ledger entry, at the new version
VersionStep(id) ==
    LET cv == prompts[id].current_version
        cvNew == prompts'[id].current_version
        old == Ledger(id)
        new == {e \in versions' : e.prompt_id = id}
    IN  \/ cvNew = cv /\ new = old
        \/ /\ cvNew = cv + 1
           /\ old \subseteq new
           /\ Cardinality(new) = Cardinality(old) + 1
           /\ \A e \in new \ old : e.version = cvNew

\* a stale writer that leaves its handler leaves with an error and with the
\* committed tables as they were
StaleFails(p) ==
    Stale(p) /\ req'[p].pc = "idle" =>
        /\ started' => response' \in {"integrity", "locked"}
        /\ UNCHANGED <<prompts, versions, embeddings>>

\* C3: when update/restore requests on one document overlap, no interleaving
\* commits a duplicate or skipped version number: of the writers that read
\* the same current_version at most one commits, the others end with an
\* error, and nothing a failing writer wrote is visible afterwards.
C3_OverlappingWritersSerialized ==
    /\ [](\A p \in Procs :
            Stale(p) => req[p].pc \notin {"update_commit", "restore_commit"})
    /\ [][/\ \A id \in 1..Len(prompts) : VersionStep(id)
          /\ \A p \in Procs : StaleFails(p)]_vars

\* a losing writer was refused by UNIQUE(prompt_id, version) after the
\* winner committed version 2
C3_Witness ==
    /\ response = "integrity"
    /\ \E id \in 1..Len(prompts) :
         /\ prompts[id].current_version = 2
         /\ Cardinality({e \in Ledger(id) : e.version = 2}) = 1

\* C4: restore(id, v) of an active document with v in its ledger raises
\* current_version by exactly 1, appends one ledger entry at the new version
\* with the content of entry v and the note "Restored from version v", and
\* makes that content the current content; with v not in the ledger it ends
\* with NotFound and changes nothing.
C4_RestoreAppends ==
    [][\A p \in Procs :
        LET l == req[p]
            src == {e \in versions : e.prompt_id = l.id /\ e.version = l.target}
        IN  /\ l.pc = "restore_commit" /\ req'[p].pc = "restore_get" =>
                /\ src # {}
                /\ prompts'[l.id].current_version =
                      prompts[l.id].current_version + 1
                /\ \A e \in src :
                      /\ prompts'[l.id].content = e.content
                      /\ versions' = versions \cup
                            {[prompt_id |-> l.id,
                              version |-> prompts'[l.id].current_version,
                              content |-> e.content,
                              change_note |-> <<"Restored from version ", l.target>>]}
                /\ Cardinality(versions') = Cardinality(versions) + 1
            /\ l.pc = "restore_read_version" /\ req'[p].pc # l.pc /\ started' =>
                IF src = {}
                THEN /\ req'[p].pc = "idle"
                     /\ response' = "not_found"
                     /\ UNCHANGED <<prompts, versions, embeddings>>
                ELSE req'[p].pc = "restore_write"]_vars

\* version 1 was restored over a version 2 of different content: the restore
\* made version 3
C4_Witness ==
    \E id \in 1..Len(prompts) :
        \E e1, e2, e3 \in Ledger(id) :
            /\ e1.version = 1 /\ e2.version = 2 /\ e3.version = 3
            /\ e2.content # e1.content
            /\ e3.content = e1.content
            /\ e3.change_note = RestoreNote(1)
            /\ prompts[id].current_version = 3
            /\ prompts[id].content = e1.content
            /\ ~prompts[id].is_deleted

\* C5: a deleted document stays deleted and is absent from list_prompts,
\* get_prompt, get_prompt_by_name and every semantic_search result, while
\* every one of its ledger entries is still returned by get_specific_version,
\* unchanged, after every further step.
C5_DeletedHiddenLedgerKept ==
    /\ [](\A id \in 1..Len(prompts) :
            prompts[id].is_deleted =>
                /\ id \notin list_prompts
                /\ get_prompt(id) = {}
                /\ \A name \in Names : id \notin get_prompt_by_name(name)
                /\ \A q \in QueryVectors, limit \in Limits, m \in MinScores :
                      \A i \in 1..Len(semantic_search(q, limit, m)) :
                          semantic_search(q, limit, m)[i].id # id)
    /\ [][\A id \in 1..Len(prompts) :
            prompts[id].is_deleted =>
                /\ prompts'[id].is_deleted
                /\ \A e \in Ledger(id) :
                      get_specific_version(id, e.version)' = {e}]_vars

\* a deleted document that still has its embedding record and its ledger
C5_Witness ==
    \E id \in 1..Len(prompts) :
        /\ prompts[id].is_deleted
        /\ \E e \in embeddings : e.prompt_id = id
        /\ \E q \in QueryVectors, m \in MinScores :
               \E e \in embeddings :
                   /\ e.prompt_id = id
                   /\ AtLeast(cosine_similarity(q, unpack_embedding(e.embedding)), m)
        /\ Cardinality(Ledger(id)) >= 2

\* C6 (as claimed): create with the name of any existing document, active
\* or deleted, ends with Conflict and leaves the store unchanged, so no two
\* rows ever share a name.
C6_DuplicateNameRejected ==
    /\ [](\A i, j \in 1..Len(prompts) :
            i # j => prompts[i].name # prompts[j].name)
    /\ [][\A p \in Procs :
            /\ req[p].pc = "idle" /\ req'[p].pc = "create_insert_version" =>
                  ~NameExists(prompts, req'[p].name)
            /\ req[p].pc = "idle" /\ response' = "conflict" /\ served' # served =>
                  UNCHANGED <<prompts, versions, embeddings>>]_vars

\* C7 (as claimed): a deleted document is a dead end: no handler gets past
\* its lookup of a deleted document, and from the commit of the delete on
\* its row and its ledger never change, whatever was in flight.
C7_DeletedIsDeadEnd ==
    [][/\ \A p \in Procs :
            req[p].pc = "idle" /\ req'[p].pc \in
                {"update_write", "restore_read_version", "delete_write"} =>
                    ~prompts[req'[p].id].is_deleted
       /\ \A id \in 1..Len(prompts) :
            prompts[id].is_deleted =>
                /\ prompts'[id] = prompts[id]
                /\ {e \in versions' : e.prompt_id = id} = Ledger(id)]_vars

\* C8: every update that commits raises current_version by exactly 1 and
\* appends exactly one ledger entry, holding the resolved content the row
\* now has, also when no field or only metadata changed.
C8_UpdateAlwaysBumps ==
    [][\A p \in Procs :
        LET l == req[p]
        IN  l.pc = "update_commit" /\ req'[p].pc = "update_embed" =>
                /\ prompts'[l.id].current_version =
                      prompts[l.id].current_version + 1
                /\ prompts'[l.id].content = l.content
                /\ versions' = versions \cup
                      {[prompt_id |-> l.id,
                        version |-> prompts'[l.id].current_version,
                        content |-> prompts'[l.id].content,
                        change_note |-> <<"Updated prompt">>]}
                /\ Cardinality(versions') = Cardinality(versions) + 1]_vars

\* an update that changed the title only made version 2, with the content
\* of version 1
C8_Witness ==
    \E id \in 1..Len(prompts) :
        \E e1, e2 \in Ledger(id) :
            /\ e1.version = 1 /\ e2.version = 2
            /\ e2.content = e1.content
            /\ e2.change_note = UpdateNote
            /\ prompts[id].current_version = 2
            /\ prompts[id].by = "seed_prompt_rules"
            /\ prompts[id].title # RulesRow.title

\* the columns of a row that create, update and restore write
Written(row) == [row EXCEPT !.is_deleted = FALSE]

\* C9: for create, update and restore the row write and the ledger append
\* are all-or-nothing: in every step the committed row changes exactly when
\* the committed ledger of that document gains an entry, a new row comes
\* with its version-1 entry, and so no committed state has a current_version
\* without its ledger entry or a ledger entry above current_version.
C9_RowAndLedgerAtomic ==
    /\ [](\A id \in 1..Len(prompts) :
            prompts[id].by # "seed" =>
                /\ \E e \in Ledger(id) : e.version = prompts[id].current_version
                /\ \A e \in Ledger(id) : e.version <= prompts[id].current_version)
    /\ [](\A e \in versions : e.prompt_id \in 1..Len(prompts))
    /\ [][/\ \A id \in 1..Len(prompts) :
               Written(prompts'[id]) # Written(prompts[id])
                   <=> {e \in versions' : e.prompt_id = id} # Ledger(id)
          /\ \A id \in (Len(prompts) + 1)..Len(prompts') :
               prompts'[id].by # "seed" =>
                   \E e \in versions' : e.prompt_id = id /\ e.version = 1]_vars

\* a transaction is open between its two writes: the row is written, the
\* ledger entry is not
C9_Witness ==
    \E p \in Procs :
        /\ lock = p
        /\ req[p].pc \in {"create_insert_version", "update_insert", "restore_insert"}
        /\ wprompts # prompts
        /\ wversions = versions

\* C10 (as claimed): whatever the embedding service answers during the
\* refresh after a create or update, the handler goes on to return the
\* document, and without a vector the embedding table is left as it was.
C10_EmbedFailureHarmless ==
    [][\A p \in Procs :
        req[p].pc \in {"create_embed", "update_embed"}
            /\ req'[p].pc # req[p].pc /\ started' /\ lock = NoProc =>
                /\ req'[p].pc \in {"create_get", "update_get"}
                /\ response' = response]_vars

\* positions of a mutation after its commit: the refresh, the final get_prompt
EmbedPcs == {"create_embed", "update_embed"}
GetPcs == {"create_get", "update_get", "restore_get"}

\* the content_hash _embed_prompt computes for the text of a row
Fingerprint(row) == Md5(EmbedText(row.name, row.category, row.tags, row.content))

\* the version a handler past its commit has written
WrittenVersion(l) ==
    IF l.pc \in {"create_embed", "create_get"} THEN 1 ELSE l.next_version

\* C11 (as claimed): a create, update or restore that has committed reaches
\* its final get_prompt through an embedding refresh: while the row is still
\* at the version the handler wrote, either the service gave no vector in
\* that refresh and the index is as it was, or the index holds a record of
\* the document whose fingerprint is that of the row's current text.
C11_MutationRefreshesEmbedding ==
    [][\A p \in Procs :
        LET id == req'[p].id
        IN  /\ req[p].pc \notin GetPcs
            /\ req'[p].pc \in GetPcs
            /\ prompts'[id].current_version = WrittenVersion(req'[p])
            => \/ req[p].pc \in EmbedPcs /\ embeddings' = embeddings
               \/ \E e \in embeddings' :
                     /\ e.prompt_id = id
                     /\ e.content_hash = Fingerprint(prompts'[id])]_vars

\* C12 (as claimed): rebuild_embeddings reads every active document, never
\* raises, and returns embedded + failed = total = the number of rows read,
\* where every row counted as embedded has had its vector stored (the index
\* holds its record, with the fingerprint of the row's text) and a row counted
\* as failed left the index as it was.
C12_RebuildCounts ==
    [][\A p \in Procs :
        LET l == req[p]
        IN  /\ l.pc = "idle" /\ req'[p].pc = "rebuild_embed" =>
                {req'[p].rows[i].id : i \in 1..Len(req'[p].rows)}
                    = ActivePrompts(prompts)
            /\ l.pc = "rebuild_embed" /\ req'[p].pc = "idle" /\ started' =>
                /\ response' = "ok"
                /\ l.embedded + l.failed = Len(l.rows)
            /\ l.pc = "rebuild_embed" /\ req'[p].pc = "rebuild_embed"
                    /\ req'[p] # l =>
                LET row == l.rows[l.embedded + l.failed + 1]
                IN  /\ req'[p].embedded + req'[p].failed
                          = l.embedded + l.failed + 1
                    /\ req'[p].embedded = l.embedded + 1 =>
                          \E e \in embeddings' :
                              /\ e.prompt_id = row.id
                              /\ e.content_hash =
                                    Md5(EmbedText(row.name, row.category,
                                                  row.tags, row.content))
                    /\ req'[p].failed = l.failed + 1 =>
                          embeddings' = embeddings]_vars

\* the documents a search may return: active, with a record in the index,
\* and a score of at least min_score
Eligible(query_emb, min_score) ==
    {e.prompt_id : e \in Hits(query_emb, min_score)}

\* the score search reports for an indexed document
Reported(query_emb, id) ==
    Round4(Score(query_emb, CHOOSE e \in embeddings : e.prompt_id = id))

\* C13 (as claimed): semantic_search(query, limit, min_score) returns at most
\* limit results, every returned score is at least min_score, the scores are
\* in non-increasing order, every result is an active document with an
\* embedding record, and no eligible document left out has a higher score
\* than one returned.
C13_SearchTopLimit ==
    \A q \in QueryVectors, limit \in Limits, m \in MinScores :
        LET r == semantic_search(q, limit, m)
            ids == {r[i].id : i \in 1..Len(r)}
        IN  /\ Len(r) <= limit
            /\ \A i \in 1..Len(r) : r[i].score * m.d >= 10000 * m.n
            /\ \A i, j \in 1..Len(r) : i < j => r[i].score >= r[j].score
            /\ \A i \in 1..Len(r) :
                  /\ r[i].id \in ActivePrompts(prompts)
                  /\ \E e \in embeddings : e.prompt_id = r[i].id
            /\ ids \subseteq Eligible(q, m)
            /\ \A o \in Eligible(q, m) \ ids :
                  \A i \in 1..Len(r) : Reported(q, o) <= r[i].score

RECURSIVE Ascending(_)
\* a set of ids as a sequence, smallest first
Ascending(S) ==
    IF S = {} THEN <<>>
    ELSE LET least == CHOOSE i \in S : \A j \in S : i <= j
         IN  <<least>> \o Ascending(S \ {least})

\* the active documents that have an embedding record
Indexed == {e.prompt_id : e \in embeddings} \cap ActivePrompts(prompts)

\* the vectors a cosine is taken of: the queries and the stored vectors
Vectors == QueryVectors \cup {unpack_embedding(e.embedding) : e \in embeddings}

\* C14: cosine_similarity is 0.0 whenever either argument has zero norm, so
\* a search with an all-zero query vector scores every indexed active
\* document 0: its result is empty when min_score > 0 and is the first limit
\* indexed active documents, each with score 0, when min_score = 0.
C14_ZeroVectorScoresZero ==
    /\ \A z \in {v \in Vectors : Dot(v, v) = 0}, a \in Vectors :
          /\ cosine_similarity(a, z) = [num |-> 0, den |-> 1]
          /\ cosine_similarity(z, a) = [num |-> 0, den |-> 1]
    /\ \A q \in QueryVectors : Dot(q, q) = 0 =>
          \A limit \in Limits, m \in MinScores :
              LET r == semantic_search(q, limit, m)
                  all == Ascending(Indexed)
              IN  IF m.n > 0 THEN r = <<>>
                  ELSE /\ Len(r) = IF limit < Len(all) THEN limit ELSE Len(all)
                       /\ \A i \in 1..Len(r) :
                             r[i] = [id |-> all[i], score |-> 0]

\* two active documents are indexed, one of them with an all-zero vector, so
\* a search with limit 1 has to cut
C14_Witness ==
    /\ Cardinality(Indexed) >= 2
    /\ \E e \in embeddings :
          /\ e.prompt_id \in Indexed
          /\ Dot(unpack_embedding(e.embedding), unpack_embedding(e.embedding)) = 0
    /\ \E q \in QueryVectors :
          /\ Dot(q, q) = 0
          /\ Len(semantic_search(q, 1, [n |-> 0, d |-> 1])) = 1

\* C15: the ledger is append-only: in every step of every interleaving each
\* committed entry stays in the ledger, and stays the only entry of its
\* (prompt_id, version), so its content and change note never change.
C15_LedgerAppendOnly ==
    [][\A e \in versions :
          /\ e \in versions'
          /\ \A f \in versions' :
                f.prompt_id = e.prompt_id /\ f.version = e.version => f = e]_vars

\* a document was created, updated to other content and then deleted: both
\* entries are in the ledger
C15_Witness ==
    \E id \in 1..Len(prompts) :
        /\ prompts[id].is_deleted
        /\ \E e1, e2 \in Ledger(id) :
              /\ e1.version = 1 /\ e2.version = 2
              /\ e1.content # e2.content

\* the columns of a row that no update and no restore writes
Fixed(row) == [name |-> row.name, is_deleted |-> row.is_deleted, by |-> row.by]

\* the columns that restore_version leaves to update_prompt
Metadata(row) ==
    [title |-> row.title, category |-> row.category, tags |-> row.tags,
     variables |-> row.variables]

\* the value a column has after an update: the one supplied, or the old one
Supplied(given, old) == IF given = {} THEN old ELSE CHOOSE v \in given : TRUE

\* C16: an update that commits changes, of the row it was based on, only the
\* fields supplied in the request among title, category, tags, content and
\* variables, plus current_version; every omitted field keeps its value; a
\* restore that commits leaves title, category, tags and variables as they
\* were; neither changes name, id or the deleted flag, nor any other row.
C16_UpdateFrame ==
    [][\A p \in Procs :
        LET l == req[p]
            old == prompts[l.id]
            new == prompts'[l.id]
        IN  /\ l.pc = "update_commit" /\ req'[p].pc = "update_embed" =>
                /\ Fixed(new) = Fixed(old)
                /\ new.title = Supplied(l.payload.title, old.title)
                /\ new.category = Supplied(l.payload.category, old.category)
                /\ new.tags = Supplied({Join(t) : t \in l.payload.tags}, old.tags)
                /\ new.content = Supplied(l.payload.content, old.content)
                /\ new.variables =
                      Supplied({JsonDumps(v) : v \in l.payload.variables},
                               old.variables)
                /\ new.current_version = old.current_version + 1
                /\ Len(prompts') = Len(prompts)
                /\ \A i \in 1..Len(prompts) : i # l.id => prompts'[i] = prompts[i]
            /\ l.pc = "restore_commit" /\ req'[p].pc = "restore_get" =>
                /\ Fixed(new) = Fixed(old)
                /\ Metadata(new) = Metadata(old)
                /\ Len(prompts') = Len(prompts)
                /\ \A i \in 1..Len(prompts) : i # l.id => prompts'[i] = prompts[i]]_vars

\* an update that supplied the content alone has committed on the imported
\* rules document: new content, the imported title and tags
C16_Witness ==
    \E id \in 1..Len(prompts) :
        /\ prompts[id].by = "seed_prompt_rules"
        /\ prompts[id].current_version = 2
        /\ prompts[id].content \in Contents
        /\ Metadata(prompts[id]) = Metadata(RulesRow)
        /\ \E e \in Ledger(id) : e.version = 2 /\ e.change_note = UpdateNote

\* C17: a delete that commits sets the deleted flag of its row and changes
\* nothing else: the other columns, the other rows, the ledger and the
\* embedding index stay as they were; a delete that finds the row already
\* deleted ends with NotFound and changes nothing; and no step of any handler
\* clears a deleted flag.
C17_DeleteOnlySetsFlag ==
    [][/\ \A p \in Procs :
            LET l == req[p]
            IN  /\ l.pc = "delete_commit" /\ req'[p].pc = "idle" /\ started' =>
                    /\ response' = "ok"
                    /\ prompts'[l.id].is_deleted
                    /\ [prompts'[l.id] EXCEPT !.is_deleted = prompts[l.id].is_deleted]
                          = prompts[l.id]
                    /\ Len(prompts') = Len(prompts)
                    /\ \A i \in 1..Len(prompts) :
                          i # l.id => prompts'[i] = prompts[i]
                    /\ UNCHANGED <<versions, embeddings>>
                /\ l.pc = "idle" /\ req'[p].pc = "delete_write" =>
                    ~prompts[req'[p].id].is_deleted
       /\ served' # served /\ response' = "not_found" =>
            UNCHANGED <<prompts, versions, embeddings>>
       /\ \A id \in 1..Len(prompts) :
            prompts[id].is_deleted => prompts'[id].is_deleted]_vars

\* a document at version 2 with an embedding record has been deleted, the
\* delete was answered and nothing is in flight
C17_Witness ==
    \E id \in 1..Len(prompts) :
        /\ prompts[id].is_deleted
        /\ prompts[id].current_version = 2
        /\ \E e \in embeddings : e.prompt_id = id
        /\ response = "ok"
        /\ \A p \in Procs : req[p].pc = "idle"

\* C18 (as claimed): every record of the embedding index holds a vector of
\* EMBED_DIM numbers, whatever the service returned, and no document has
\* two records.
C18_VectorsHaveEmbedDim ==
    /\ \A e \in embeddings : Len(unpack_embedding(e.embedding)) = EMBED_DIM
    /\ \A e, f \in embeddings : e.prompt_id = f.prompt_id => e = f

\* the tag set of a row, as row_to_prompt returns it
TagSet(row) == {parse_tags(row.tags)[i] : i \in 1..Len(parse_tags(row.tags))}

\* C19 (as claimed): list_prompts with a tag filter returns exactly the
\* active documents whose tag set has the filter value as one of its
\* elements.
C19_TagFilterIsMembership ==
    \A tag \in TagFilters :
        list_prompts_by_tag(tag)
            = {i \in ActivePrompts(prompts) : tag \in TagSet(prompts[i])}

\* C20: for every document created through create_prompt (and for the one
\* seed_prompt_rules imports with the same two statements), after any
\* create/update/restore/delete calls the content of its row is the content
\* of the one ledger entry at its current_version.
C20_RowContentIsLedgerHead ==
    \A id \in 1..Len(prompts) :
        prompts[id].by \in {"create_prompt", "seed_prompt_rules"} =>
            /\ \E e \in Ledger(id) : e.version = prompts[id].current_version
            /\ \A e \in Ledger(id) :
                  e.version = prompts[id].current_version =>
                      e.content = prompts[id].content

\* a created document was updated to other content: its row holds the
\* content of version 2, not that of version 1
C20_Witness ==
    \E id \in 1..Len(prompts) :
        /\ prompts[id].by = "create_prompt"
        /\ prompts[id].current_version = 2
        /\ \E e \in Ledger(id) :
              e.version = 1 /\ e.content # prompts[id].content
        /\ \E e \in Ledger(id) :
              e.version = 2 /\ e.content = prompts[id].content

\* the record the index holds for a document is the one computed from the
\* text of its committed row
RecordIsCurrent(tbl, idx, id) ==
    \E e \in idx : e.prompt_id = id /\ e.content_hash = Fingerprint(tbl[id])

\* C21 (as claimed): when updates of one document have committed one after
\* another and their refreshes overlap, a refresh that belongs to an older
\* version than the committed one never overwrites the record of the newer
\* one: if the index holds the record computed from the document's latest
\* committed content when the older refresh takes its step, it still holds
\* that record after the step, so that once all refreshes have finished the
\* record is the one of the latest content.
C21_LatestRefreshWins ==
    [][\A p \in Procs :
        LET l == req[p]
        IN  /\ l.pc = "update_embed"
            /\ req'[p] # l
            /\ WrittenVersion(l) < prompts[l.id].current_version
            /\ RecordIsCurrent(prompts, embeddings, l.id)
            => RecordIsCurrent(prompts', embeddings', l.id)]_vars

====
